---------------------------- MODULE Spec2Model ----------------------------
(***************************************************************************)
(* Model of the pair-spread analyzer (src/analyzer.py): series alignment,  *)
(* spread calculation, the two-state cycle detector, the threshold sweep   *)
(* of analyze_pair and the orchestrating loop of main; and of the bot      *)
(* (src/bot.py): the live monitor check_pairs_loop with its state file,    *)
(* and the subscribers file written by /start and /stop.                   *)
(*                                                                         *)
(* Numbers.  Thresholds are Python floats that the code keeps on a 0.5     *)
(* grid and compares with a 1e-9 tolerance.  A threshold is the record     *)
(* [h, e] standing for h * 0.5 + e * 1e-11 (|e| far below one grid step),  *)
(* so that 1e-9 and round(x, 10) keep their meaning.  A spread is the      *)
(* exact fraction [n, d] standing for n / d percent (d > 0).               *)
(***************************************************************************)
EXTENDS Integers, Sequences, FiniteSets, TLC

VARIABLES
    \* count_cycles_for_thresholds: arguments and locals (spreads is also the
    \* list calc_spread_list returns)
    spreads, open_thr, close_thr, state, count, k,
    \* align_series: arguments a, b and the returned triple
    a, b, common, series_a, series_b,
    \* calc_spread_list: the coefficient (series_a, series_b are its arguments)
    coef,
    \* the module globals OPEN_MIN, OPEN_MAX read by analyze_pair
    OPEN_MIN, OPEN_MAX,
    \* analyze_pair: arguments (with coef), locals and the returned value
    p1_sym, p2_sym, klines_cache, results, open_val, close_val, max_close, res,
    \* the candles the exchange serves per symbol
    exchange,
    \* bookkeeping: the outcomes of the calls of fetch_klines_close per symbol in
    \* this run of main, the number of detector calls of the running sweep, and
    \* the last (open, close) it was given
    fetch_log, n_calls, last_call,
    \* main: the loaded pairs, the loop position, the report being built, the
    \* analysis.json file, and the number of runs started
    pairs, pair_idx, analysis, analysis_file, runs,
    \* bookkeeping of main: the combinations of this run for which analyze_pair
    \* had both series, and the analysis.json file as it was before the last save
    available, prev_report,
    \* bot.py: the state dict and the state.json file, the position in pairs of
    \* the running poll and the two prices it fetched, the clock, and the number
    \* of polls finished
    bot_state, state_file, poll_idx, price1, price2, now, polls,
    \* bookkeeping of the monitor: the alerts broadcast, and per pair the spreads
    \* its transition was given
    alerts, fed,
    \* bot.py: the subscribers.txt file; bookkeeping: the last command of each
    \* chat and the number of commands handled
    subscribers_file, last_cmd, n_cmds,
    \* the position in the code
    pc

detVars == <<spreads, open_thr, close_thr, state, count, k>>
alignVars == <<a, b, common>>
seriesVars == <<series_a, series_b>>
globalVars == <<OPEN_MIN, OPEN_MAX>>
argVars == <<p1_sym, p2_sym>>
loopVars == <<results, open_val, close_val, max_close, n_calls, last_call>>
sweepVars == <<globalVars, argVars, loopVars, klines_cache, res, exchange, fetch_log>>
runLog == <<available, prev_report>>
mainVars == <<pairs, pair_idx, analysis, analysis_file, runs, runLog>>
botVars == <<bot_state, state_file, poll_idx, price1, price2, now, polls, alerts, fed>>
subsVars == <<subscribers_file, last_cmd, n_cmds>>
vars == <<detVars, alignVars, seriesVars, coef, sweepVars, mainVars, botVars, subsVars, pc>>

-----------------------------------------------------------------------------
(* Numbers *)

Num(h, e) == [h |-> h, e |-> e]
Zero == Num(0, 0)
\* the literal 1e-9 of the loop conditions, in units of 1e-11
EPS == Num(0, 100)
NumAdd(x, y) == Num(x.h + y.h, x.e + y.e)
NumSub(x, y) == Num(x.h - y.h, x.e - y.e)
NumLt(x, y) == x.h < y.h \/ (x.h = y.h /\ x.e < y.e)
NumLeq(x, y) == x.h < y.h \/ (x.h = y.h /\ x.e <= y.e)
\* round(x, 10): to the nearest multiple of 1e-10
Round10(x) == Num(x.h, 10 * ((x.e + 5) \div 10))
\* round(x, 2): to the nearest multiple of 0.01 (every h * 0.5 is one)
Round2(x) == Num(x.h, 1000000000 * ((x.e + 500000000) \div 1000000000))

\* a spread of hv * 0.5 percent
Pct(hv) == [n |-> hv, d |-> 2]
\* s >= thr and s <= thr for a spread s = n/d and a threshold thr
SpreadGeq(s, thr) == 2 * s.n > thr.h * s.d \/ (2 * s.n = thr.h * s.d /\ thr.e <= 0)
SpreadLeq(s, thr) == 2 * s.n < thr.h * s.d \/ (2 * s.n = thr.h * s.d /\ thr.e >= 0)

-----------------------------------------------------------------------------
(* Bounds *)

\* longest enumerated spread series
MaxLen == 4
\* longest enumerated list of price points given to align_series as a
MaxPoints == 3
\* longest enumerated price list given to calc_spread_list
MaxPrices == 2
\* longest enumerated candle history served to analyze_pair
MaxCandles == 3
\* runs of main in one behaviour
MaxRuns == 2
\* polls of the monitor after its first
MaxPolls == 3
\* commands handled by webhook in one behaviour
MaxCommands == 4

-----------------------------------------------------------------------------
(* count_cycles_for_thresholds (analyzer.py 88-106) *)

\* faulty variant: the second test is a plain `if`, so one value can open and close
CountLoopBodyFallThrough(st, s, o, c) ==
    LET opened == st.state = "waiting_open" /\ SpreadGeq(s, o)
        st1 == IF opened THEN [st EXCEPT !.state = "waiting_close"] ELSE st
    IN  IF st1.state = "waiting_close" /\ SpreadLeq(s, c)
        THEN [state |-> "waiting_open", count |-> st1.count + 1]
        ELSE st1

\* faulty variant: the close transition forgets to count
CountLoopBodyNoCount(st, s, o, c) ==
    IF st.state = "waiting_open"
    THEN IF SpreadGeq(s, o) THEN [st EXCEPT !.state = "waiting_close"] ELSE st
    ELSE IF SpreadLeq(s, c) THEN [st EXCEPT !.state = "waiting_open"] ELSE st

\* faulty variant: the open test is inverted (s <= open_thr)
CountLoopBodyOpenInverted(st, s, o, c) ==
    IF st.state = "waiting_open"
    THEN IF SpreadLeq(s, o) THEN [st EXCEPT !.state = "waiting_close"] ELSE st
    ELSE IF SpreadLeq(s, c)
         THEN [state |-> "waiting_open", count |-> st.count + 1]
         ELSE st

\* the body of `for s in spreads` (lines 99-105) on st = [state, count]
CountLoopBody(st, s, o, c) ==
    IF st.state = "waiting_open"
    THEN IF SpreadGeq(s, o) THEN [st EXCEPT !.state = "waiting_close"] ELSE st
    ELSE IF st.state = "waiting_close"
         THEN IF SpreadLeq(s, c)
              THEN [state |-> "waiting_open", count |-> st.count + 1]
              ELSE st
         ELSE st

RECURSIVE CountLoop(_, _, _, _, _)
\* the loop of lines 98-105 from position i (1-based) in state st
CountLoop(sp, i, st, o, c) ==
    IF i > Len(sp) THEN st
    ELSE CountLoop(sp, i + 1, CountLoopBody(st, sp[i], o, c), o, c)

count_cycles_for_thresholds(sp, o, c) ==
    CountLoop(sp, 1, [state |-> "waiting_open", count |-> 0], o, c).count

\* spread values fed to the detector: 0, 0.5, 1, 4, 5 percent
SpreadVals == {Pct(0), Pct(1), Pct(2), Pct(8), Pct(10)}

RECURSIVE SeqsUpTo(_, _)
SeqsUpTo(S, n) ==
    IF n = 0 THEN {<<>>}
    ELSE LET shorter == SeqsUpTo(S, n - 1)
         IN  shorter \cup {Append(q, x) : q \in shorter, x \in S}

\* the series [1, 5, 6, 2, 0.5, 7, 1] of the documented scenario
ScenarioSeries == <<Pct(2), Pct(10), Pct(12), Pct(4), Pct(1), Pct(14), Pct(2)>>

\* the same series with a last value above the close threshold
ScenarioPending == <<Pct(2), Pct(10), Pct(12), Pct(4), Pct(1), Pct(14), Pct(4)>>

SpreadInputs == SeqsUpTo(SpreadVals, MaxLen) \cup {ScenarioSeries, ScenarioPending}

\* (open, close) arguments: grid pairs with open >= close + 4.0, the scenario's
\* (4, 1), and a pair with close above open
ThresholdInputs ==
    { <<Num(8, 0), Num(0, 0)>>, <<Num(10, 0), Num(0, 0)>>, <<Num(10, 0), Num(1, 0)>>,
      <<Num(10, 0), Num(2, 0)>>, <<Num(8, 0), Num(2, 0)>>, <<Num(1, 0), Num(8, 0)>> }

\* the variables of the other functions, unused while one is exercised
DetIdle ==
    /\ spreads = <<>> /\ open_thr = Zero /\ close_thr = Zero
    /\ state = "waiting_open" /\ count = 0 /\ k = 0
AlignIdle == a = <<>> /\ b = <<>> /\ common = <<>>
SeriesIdle == series_a = <<>> /\ series_b = <<>>
LoopIdle ==
    /\ results = <<>> /\ open_val = Zero /\ close_val = Zero /\ max_close = Zero
    /\ n_calls = 0 /\ last_call = <<>>
SweepIdle ==
    /\ OPEN_MIN = Num(8, 0) /\ OPEN_MAX = Num(60, 0)
    /\ p1_sym = <<>> /\ p2_sym = <<>> /\ LoopIdle
    /\ klines_cache = <<>> /\ res = <<>> /\ exchange = <<>> /\ fetch_log = <<>>
MainIdle ==
    /\ pairs = <<>> /\ pair_idx = 0 /\ analysis = <<>> /\ analysis_file = <<>> /\ runs = 0
    /\ available = {} /\ prev_report = <<>>
BotIdle ==
    /\ bot_state = <<>> /\ state_file = <<>> /\ poll_idx = 0
    /\ price1 = <<>> /\ price2 = <<>> /\ now = 0 /\ polls = 0
    /\ alerts = <<>> /\ fed = <<>>
SubsIdle == subscribers_file = <<>> /\ last_cmd = <<>> /\ n_cmds = 0

DetInit ==
    /\ AlignIdle /\ SeriesIdle /\ SweepIdle /\ MainIdle /\ BotIdle /\ SubsIdle
    /\ coef = 100 /\ pc = "called"
    /\ spreads \in SpreadInputs
    /\ \E t \in ThresholdInputs : open_thr = t[1] /\ close_thr = t[2]
    /\ state = "waiting_open"
    /\ count = 0
    /\ k = 0

\* one iteration of the for loop: the value spreads[k + 1] is processed
DetStep ==
    /\ k < Len(spreads)
    /\ LET st == CountLoopBody([state |-> state, count |-> count],
                               spreads[k + 1], open_thr, close_thr)
       IN  state' = st.state /\ count' = st.count
    /\ k' = k + 1
    /\ UNCHANGED <<spreads, open_thr, close_thr, alignVars, seriesVars, coef, sweepVars,
                   mainVars, botVars, subsVars, pc>>

DetNext == DetStep

SpecDetector == DetInit /\ [][DetNext]_vars

-----------------------------------------------------------------------------
(* align_series (analyzer.py 56-67) *)

\* a price point (ts_ms, price) is the pair <<ts, price>>
RECURSIVE DictFrom(_, _, _)
\* {ts: p for ts, p in pts}: points are inserted in list order from position i,
\* a later point replacing an earlier one with the same key
DictFrom(pts, i, d) ==
    IF i > Len(pts) THEN d
    ELSE LET ts == pts[i][1]
             p == pts[i][2]
         IN  DictFrom(pts, i + 1,
                      [x \in (DOMAIN d) \cup {ts} |-> IF x = ts THEN p ELSE d[x]])

EmptyDict == [x \in {} |-> 0]

RECURSIVE Sorted(_)
\* sorted(S) for a set of integers: ascending
Sorted(S) ==
    IF S = {} THEN <<>>
    ELSE LET m == CHOOSE x \in S : \A y \in S : x <= y
         IN  <<m>> \o Sorted(S \ {m})

RECURSIVE KeysInOrder(_, _, _)
\* the keys of pts in order of first appearance, kept when in the set S
KeysInOrder(pts, i, S) ==
    IF i > Len(pts) THEN <<>>
    ELSE IF pts[i][1] \in S
         THEN <<pts[i][1]>> \o KeysInOrder(pts, i + 1, S \ {pts[i][1]})
         ELSE KeysInOrder(pts, i + 1, S)

\* faulty variant: the common keys are listed in dict order, sorted() forgotten
align_series_unsorted(pa, pb) ==
    LET dict_a == DictFrom(pa, 1, EmptyDict)
        dict_b == DictFrom(pb, 1, EmptyDict)
        cm == KeysInOrder(pa, 1, (DOMAIN dict_a) \cap (DOMAIN dict_b))
    IN  [common |-> cm,
         series_a |-> [j \in 1..Len(cm) |-> dict_a[cm[j]]],
         series_b |-> [j \in 1..Len(cm) |-> dict_b[cm[j]]]]

align_series(pa, pb) ==
    LET dict_a == DictFrom(pa, 1, EmptyDict)
        dict_b == DictFrom(pb, 1, EmptyDict)
        cm == Sorted((DOMAIN dict_a) \cap (DOMAIN dict_b))
    IN  [common |-> cm,
         series_a |-> [j \in 1..Len(cm) |-> dict_a[cm[j]]],
         series_b |-> [j \in 1..Len(cm) |-> dict_b[cm[j]]]]

\* inputs: a holds points at three timestamps with two possible prices each;
\* b holds points at the same and one further timestamp, priced by timestamp
PointsA == {<<ts, p>> : ts \in 1..3, p \in {10, 20}}
PointsB == {<<ts, 7 * ts>> : ts \in 1..4}

AlignInit ==
    /\ DetIdle /\ SeriesIdle /\ SweepIdle /\ MainIdle /\ BotIdle /\ SubsIdle
    /\ coef = 100 /\ pc = "called"
    /\ a \in SeqsUpTo(PointsA, MaxPoints)
    /\ b \in SeqsUpTo(PointsB, 3)
    /\ common = <<>>

\* the call align_series(a, b) returns
AlignReturn ==
    /\ pc = "called"
    /\ LET r == align_series(a, b)
       IN  common' = r.common /\ series_a' = r.series_a /\ series_b' = r.series_b
    /\ pc' = "returned"
    /\ UNCHANGED <<detVars, a, b, coef, sweepVars, mainVars, botVars, subsVars>>

AlignNext == AlignReturn

SpecAlign == AlignInit /\ [][AlignNext]_vars

-----------------------------------------------------------------------------
(* calc_spread_list (analyzer.py 69-86) *)

\* Prices are integers; coef is in hundredths (100 is 1.0), so the scaled
\* prices pa_s, pb_s are kept in hundredths of a price unit.  A spread is the
\* fraction n / d; d = 0 stands for a division by zero.
Abs(x) == IF x < 0 THEN -x ELSE x

\* faulty variant: the denom == 0 test is missing
SpreadPointNoGuard(pa, pb, cf) ==
    LET pa_s == IF pa < pb THEN pa * cf ELSE pa * 100
        pb_s == IF pa < pb THEN pb * 100 ELSE pb * cf
    IN  [n |-> 200 * Abs(pa_s - pb_s), d |-> pa_s + pb_s]

\* the body of the loop (lines 74-85) for one pair of prices
SpreadPoint(pa, pb, cf) ==
    LET pa_s == IF pa < pb THEN pa * cf ELSE pa * 100
        pb_s == IF pa < pb THEN pb * 100 ELSE pb * cf
        denom == pa_s + pb_s
    IN  IF denom = 0 THEN [n |-> 0, d |-> 1]
        ELSE [n |-> 200 * Abs(pa_s - pb_s), d |-> denom]

Min(x, y) == IF x < y THEN x ELSE y

\* zip() stops at the shorter list
calc_spread_list(sa, sb, cf) ==
    [j \in 1..Min(Len(sa), Len(sb)) |-> SpreadPoint(sa[j], sb[j], cf)]

PriceVals == {0, 1, 3}
CoefVals == {50, 100, 250}

SpreadInit ==
    /\ AlignIdle /\ SweepIdle /\ MainIdle /\ BotIdle /\ SubsIdle /\ pc = "called"
    /\ open_thr = Zero /\ close_thr = Zero /\ state = "waiting_open"
    /\ count = 0 /\ k = 0
    /\ series_a \in SeqsUpTo(PriceVals, MaxPrices)
    /\ series_b \in SeqsUpTo(PriceVals, MaxPrices)
    /\ coef \in CoefVals
    /\ spreads = <<>>

\* the call calc_spread_list(series_a, series_b, coef) returns
SpreadReturn ==
    /\ pc = "called"
    /\ spreads' = calc_spread_list(series_a, series_b, coef)
    /\ pc' = "returned"
    /\ UNCHANGED <<open_thr, close_thr, state, count, k, alignVars, seriesVars, coef,
                   sweepVars, mainVars, botVars, subsVars>>

SpreadNext == SpreadReturn

SpecSpread == SpreadInit /\ [][SpreadNext]_vars

-----------------------------------------------------------------------------
(* analyze_pair (analyzer.py 108-156) *)

\* An optional value: None is the empty tuple, a value x is <<x>>.
None == <<>>
Some(x) == <<x>>

OPEN_STEP == Num(1, 0)
CLOSE_STEP == Num(1, 0)

\* faulty variant: the gap of 4.0 is not subtracted
MaxCloseNoGap(ov) == Round10(NumAdd(ov, EPS))

\* max_close = round(open_val - 4.0 + 1e-9, 10)
MaxClose(ov) == Round10(NumAdd(NumSub(ov, Num(8, 0)), EPS))

\* faulty variant: the inner loop stops one step early (close_val < max_close)
InnerLoopCondStrict(cv, mc) == NumLt(NumAdd(cv, EPS), mc)

\* while close_val <= max_close + 1e-9
InnerLoopCond(cv, mc) == NumLeq(cv, NumAdd(mc, EPS))

\* faulty variant: the outer loop stops before OPEN_MAX (open_val < OPEN_MAX)
OuterLoopCondStrict(ov, open_max) == NumLt(NumAdd(ov, EPS), open_max)

\* while open_val <= OPEN_MAX + 1e-9
OuterLoopCond(ov, open_max) == NumLeq(ov, NumAdd(open_max, EPS))

RECURSIVE InsertByCycles(_, _)
\* r goes behind every entry with at least as many cycles
InsertByCycles(sorted, r) ==
    IF sorted = <<>> THEN <<r>>
    ELSE IF sorted[1][3] >= r[3]
         THEN <<sorted[1]>> \o InsertByCycles(Tail(sorted), r)
         ELSE <<r>> \o sorted

RECURSIVE InsertByCyclesFirst(_, _)
\* r goes in front of the entries with as many cycles
InsertByCyclesFirst(sorted, r) ==
    IF sorted = <<>> THEN <<r>>
    ELSE IF sorted[1][3] > r[3]
         THEN <<sorted[1]>> \o InsertByCyclesFirst(Tail(sorted), r)
         ELSE <<r>> \o sorted

RECURSIVE SortTiesReversedFrom(_, _, _)
SortTiesReversedFrom(rs, i, sorted) ==
    IF i > Len(rs) THEN sorted
    ELSE SortTiesReversedFrom(rs, i + 1, InsertByCyclesFirst(sorted, rs[i]))

\* faulty variant: an unstable descending sort (equal counts come out in reverse order)
SortByCyclesDescTiesReversed(rs) == SortTiesReversedFrom(rs, 1, <<>>)

\* faulty variant: the sort is missing
SortByCyclesDescMissing(rs) == rs

RECURSIVE SortFrom(_, _, _)
SortFrom(rs, i, sorted) ==
    IF i > Len(rs) THEN sorted
    ELSE SortFrom(rs, i + 1, InsertByCycles(sorted, rs[i]))

\* results.sort(key=lambda x: x[2], reverse=True): stable, descending by cycles
SortByCyclesDesc(rs) == SortFrom(rs, 1, <<>>)

\* faulty variant: no result is reported as None
ReportNoneWhenEmpty(rs) ==
    IF rs = <<>> THEN None
    ELSE LET top5 == SubSeq(SortByCyclesDesc(rs), 1, Min(5, Len(rs)))
         IN  Some([j \in 1..Len(top5) |->
                    [open |-> Round2(top5[j][1]), close |-> Round2(top5[j][2]),
                     cycles |-> top5[j][3]]])

\* lines 150-156: the returned list
Report(rs) ==
    IF rs = <<>> THEN Some(<<>>)
    ELSE LET top5 == SubSeq(SortByCyclesDesc(rs), 1, Min(5, Len(rs)))
         IN  Some([j \in 1..Len(top5) |->
                    [open |-> Round2(top5[j][1]), close |-> Round2(top5[j][2]),
                     cycles |-> top5[j][3]]])

\* symbols are strings, kept as tuples of characters
SymA == <<"A">>
SymB == <<"B">>
SymC == <<"C">>
Symbols == {SymA, SymB, SymC}
EmptyCache == [x \in {} |-> <<>>]
Put(cache, sym, kl) == [x \in (DOMAIN cache) \cup {sym} |-> IF x = sym THEN kl ELSE cache[x]]

\* what fetch_klines_close(sym) may return: None, or the candles the exchange
\* serves (lines 36-54)
FetchOutcomes(sym) == {None, Some(exchange[sym])}

\* faulty variant: the cache is never consulted
NotCachedAlways(sym, cache) == TRUE

\* if key not in klines_cache
NotCached(sym, cache) == sym \notin DOMAIN cache

Logged(log, sym, f) == [log EXCEPT ![sym] = Append(@, IF f = None THEN "failed" ELSE "ok")]

\* lines 114-135: both series are taken from the cache or fetched, aligned and
\* turned into spreads; a failed fetch returns None
AnalyzeStart ==
    /\ pc = "analyze"
    /\ LET need1 == NotCached(p1_sym, klines_cache)
       IN  \E f1 \in IF need1 THEN FetchOutcomes(p1_sym) ELSE {None} :
         LET cache1 == IF need1 /\ f1 # None THEN Put(klines_cache, p1_sym, f1[1])
                       ELSE klines_cache
             log1 == IF need1 THEN Logged(fetch_log, p1_sym, f1) ELSE fetch_log
         IN  IF need1 /\ f1 = None
             THEN /\ res' = None /\ pc' = "returned"
                  /\ klines_cache' = klines_cache /\ fetch_log' = log1
                  /\ UNCHANGED <<spreads, loopVars>>
             ELSE
         LET need2 == NotCached(p2_sym, cache1)
         IN  \E f2 \in IF need2 THEN FetchOutcomes(p2_sym) ELSE {None} :
         LET cache2 == IF need2 /\ f2 # None THEN Put(cache1, p2_sym, f2[1]) ELSE cache1
             log2 == IF need2 THEN Logged(log1, p2_sym, f2) ELSE log1
         IN  IF need2 /\ f2 = None
             THEN /\ res' = None /\ pc' = "returned"
                  /\ klines_cache' = cache1 /\ fetch_log' = log2
                  /\ UNCHANGED <<spreads, loopVars>>
             ELSE
         LET al == align_series(cache2[p1_sym], cache2[p2_sym])
         IN  /\ spreads' = calc_spread_list(al.series_a, al.series_b, coef)
             /\ klines_cache' = cache2 /\ fetch_log' = log2
             /\ results' = <<>> /\ open_val' = OPEN_MIN
             /\ n_calls' = 0 /\ last_call' = None
             /\ pc' = "outer"
             /\ UNCHANGED <<close_val, max_close, res>>
    /\ UNCHANGED <<open_thr, close_thr, state, count, k, alignVars, seriesVars, coef,
                   globalVars, argVars, exchange, mainVars, botVars, subsVars>>

\* lines 136-142: the test of the outer loop and the start of an inner loop
SweepOuter ==
    /\ pc = "outer"
    /\ IF OuterLoopCond(open_val, OPEN_MAX)
       THEN /\ max_close' = MaxClose(open_val)
            /\ IF NumLt(max_close', Zero)
               THEN /\ open_val' = Round10(NumAdd(open_val, OPEN_STEP))
                    /\ pc' = "outer"
                    /\ UNCHANGED close_val
               ELSE /\ close_val' = Zero
                    /\ pc' = "inner"
                    /\ UNCHANGED open_val
       ELSE /\ pc' = "report"
            /\ UNCHANGED <<open_val, close_val, max_close>>
    /\ UNCHANGED <<detVars, alignVars, seriesVars, coef, globalVars, argVars, results,
                   n_calls, last_call, klines_cache, res, exchange, fetch_log, mainVars,
                   botVars, subsVars>>

\* lines 143-149: one detector call of the inner loop, or its end
SweepInner ==
    /\ pc = "inner"
    /\ IF InnerLoopCond(close_val, max_close)
       THEN LET cycles == count_cycles_for_thresholds(spreads, open_val, close_val)
            IN  /\ results' = IF cycles > 0
                              THEN Append(results, <<open_val, close_val, cycles>>)
                              ELSE results
                /\ n_calls' = n_calls + 1
                /\ last_call' = Some(<<open_val, close_val>>)
                /\ close_val' = Round10(NumAdd(close_val, CLOSE_STEP))
                /\ pc' = "inner"
                /\ UNCHANGED open_val
       ELSE /\ open_val' = Round10(NumAdd(open_val, OPEN_STEP))
            /\ pc' = "outer"
            /\ UNCHANGED <<results, n_calls, last_call, close_val>>
    /\ UNCHANGED <<detVars, alignVars, seriesVars, coef, globalVars, argVars, max_close,
                   klines_cache, res, exchange, fetch_log, mainVars, botVars, subsVars>>

\* lines 150-156: the report is returned
AnalyzeFinish ==
    /\ pc = "report"
    /\ res' = Report(results)
    /\ pc' = "returned"
    /\ UNCHANGED <<detVars, alignVars, seriesVars, coef, globalVars, argVars, loopVars,
                   klines_cache, exchange, fetch_log, mainVars, botVars, subsVars>>

\* Candle histories whose spreads are x / 2 percent: at hour j the first asset
\* closes at 400 + x and the second at 400 - x.
Candles(xs, sign) == [j \in 1..Len(xs) |-> <<j, 400 + sign * xs[j]>>]
OffsetVals == {0, 1, 8, 10}
\* a longer history, with counts that differ between threshold pairs
LongOffsets == <<10, 2, 10, 1, 10, 0>>
ExchangeInputs ==
    { [x \in Symbols |-> IF x = SymA THEN Candles(xs, 1) ELSE Candles(xs, -1)] :
        xs \in SeqsUpTo(OffsetVals, MaxCandles) \cup {LongOffsets} }

\* OPEN_MIN, OPEN_MAX as shipped (4.0, 30.0) and rebound to 3.0..5.0, 5.0..4.0
\* and 1.0..3.0
ShippedConfig == <<Num(8, 0), Num(60, 0)>>
SweepConfigs ==
    { ShippedConfig, <<Num(6, 0), Num(10, 0)>>, <<Num(10, 0), Num(8, 0)>>,
      <<Num(2, 0), Num(6, 0)>> }

\* analyze_pair("A", "B", 1.0, klines_cache) is called with both series cached,
\* or, for the longer history, with any part of them cached
AnalyzeInit ==
    /\ DetIdle /\ AlignIdle /\ SeriesIdle /\ LoopIdle /\ MainIdle /\ BotIdle /\ SubsIdle
    /\ coef = 100
    /\ \E cfg \in SweepConfigs : OPEN_MIN = cfg[1] /\ OPEN_MAX = cfg[2]
    /\ p1_sym = SymA /\ p2_sym = SymB
    /\ exchange \in ExchangeInputs
    /\ \E D \in SUBSET {SymA, SymB} :
           /\ (D = {SymA, SymB} \/ Len(exchange[SymA]) = Len(LongOffsets))
           /\ klines_cache = [x \in D |-> exchange[x]]
    /\ fetch_log = [x \in Symbols |-> <<>>]
    /\ res = None
    /\ pc = "analyze"

AnalyzeNext == AnalyzeStart \/ SweepOuter \/ SweepInner \/ AnalyzeFinish

SpecAnalyze == AnalyzeInit /\ [][AnalyzeNext]_vars

\* analyze_pair as shipped, on the empty history, flat and swinging short
\* histories and the longer one
ShippedExchangeInputs ==
    { [x \in Symbols |-> IF x = SymA THEN Candles(xs, 1) ELSE Candles(xs, -1)] :
        xs \in SeqsUpTo({0, 10}, 2) \cup {LongOffsets} }
ShippedInit ==
    /\ DetIdle /\ AlignIdle /\ SeriesIdle /\ LoopIdle /\ MainIdle /\ BotIdle /\ SubsIdle
    /\ coef = 100
    /\ OPEN_MIN = ShippedConfig[1] /\ OPEN_MAX = ShippedConfig[2]
    /\ p1_sym = SymA /\ p2_sym = SymB
    /\ exchange \in ShippedExchangeInputs
    /\ klines_cache \in {EmptyCache, [x \in {SymA, SymB} |-> exchange[x]]}
    /\ fetch_log = [x \in Symbols |-> <<>>]
    /\ res = None
    /\ pc = "analyze"

\* the sweep is sequential code: a step of it that can be taken is taken
SpecShippedFair ==
    ShippedInit /\ [][AnalyzeNext]_vars /\ WF_vars(SweepOuter \/ SweepInner \/ AnalyzeFinish)

-----------------------------------------------------------------------------
(* main (analyzer.py 158-185) *)

\* f"{p1}-{p2}"
Key(p1, p2) == p1 \o <<"-">> \o p2

\* pairs.json: per first symbol the second symbol and, optionally, coef; in file
\* order.  B is shared by two combinations, as second symbol or as both.
PairsInputs ==
    { << [p1 |-> SymA, pair2 |-> SymB, coef |-> Some(100)],
         [p1 |-> SymC, pair2 |-> SymB, coef |-> None] >>,
      << [p1 |-> SymA, pair2 |-> SymB, coef |-> None],
         [p1 |-> SymB, pair2 |-> SymC, coef |-> Some(250)] >>,
      << [p1 |-> SymB, pair2 |-> SymB, coef |-> None] >> }

\* the candles served: A and B swing apart and back, C stays flat
MainExchange ==
    [x \in Symbols |-> IF x = SymA THEN Candles(<<10, 0, 10, 0>>, 1)
                       ELSE IF x = SymB THEN Candles(<<10, 0, 10, 0>>, -1)
                       ELSE Candles(<<0, 0, 0, 0>>, 1)]

MainInit ==
    /\ DetIdle /\ AlignIdle /\ SeriesIdle /\ LoopIdle /\ coef = 100
    /\ OPEN_MIN = ShippedConfig[1] /\ OPEN_MAX = ShippedConfig[2]
    /\ p1_sym = <<>> /\ p2_sym = <<>>
    /\ exchange = MainExchange
    /\ klines_cache = EmptyCache
    /\ fetch_log = [x \in Symbols |-> <<>>]
    /\ res = None
    /\ pairs \in PairsInputs
    /\ pair_idx = 0
    /\ analysis = EmptyCache
    /\ analysis_file = None
    /\ runs = 0
    /\ available = {} /\ prev_report = None
    /\ BotIdle /\ SubsIdle
    /\ pc = "idle"

\* lines 159-164: a run of main starts
MainStart ==
    /\ pc = "idle"
    /\ runs < MaxRuns
    /\ runs' = runs + 1
    /\ klines_cache' = EmptyCache
    /\ fetch_log' = [x \in Symbols |-> <<>>]
    /\ analysis' = EmptyCache
    /\ pair_idx' = 0
    /\ available' = {}
    /\ pc' = "loop"
    /\ UNCHANGED <<detVars, alignVars, seriesVars, coef, globalVars, argVars, loopVars,
                   res, exchange, pairs, analysis_file, prev_report, botVars, subsVars>>

\* lines 165-171: the next combination is handed to analyze_pair
MainCall ==
    /\ pc = "loop"
    /\ pair_idx < Len(pairs)
    /\ pair_idx' = pair_idx + 1
    /\ p1_sym' = pairs[pair_idx + 1].p1
    /\ p2_sym' = pairs[pair_idx + 1].pair2
    /\ coef' = IF pairs[pair_idx + 1].coef = None THEN 100 ELSE pairs[pair_idx + 1].coef[1]
    /\ pc' = "analyze"
    /\ UNCHANGED <<detVars, alignVars, seriesVars, globalVars, loopVars, klines_cache,
                   res, exchange, fetch_log, pairs, analysis, analysis_file, runs, runLog,
                   botVars, subsVars>>

\* faulty variant: a skipped combination leaves an (empty) entry
StoredWithErrorEntry(an, r, key) == Put(an, key, IF r = None THEN <<>> ELSE r[1])

\* lines 172-175: None skips the combination, a list is stored under its key
Stored(an, r, key) == IF r = None THEN an ELSE Put(an, key, r[1])

\* faulty variant: the new report is merged into the one on disk
SavedMerged(file, stamp, an) ==
    LET old == IF file = None THEN EmptyCache ELSE file[1].pairs
    IN  Some([generated_at |-> stamp,
              pairs |-> [x \in (DOMAIN old) \cup (DOMAIN an) |->
                            IF x \in DOMAIN an THEN an[x] ELSE old[x]]])

\* lines 32-34, 180-183: what open(ANALYSIS_FILE, "w") and json.dump leave
Saved(file, stamp, an) == Some([generated_at |-> stamp, pairs |-> an])

\* lines 171-178: analyze_pair has returned
MainStore ==
    /\ pc = "returned"
    /\ analysis' = Stored(analysis, res, Key(p1_sym, p2_sym))
    /\ available' = IF {p1_sym, p2_sym} \subseteq DOMAIN klines_cache
                    THEN available \cup {pair_idx} ELSE available
    /\ pc' = "loop"
    /\ UNCHANGED <<detVars, alignVars, seriesVars, coef, sweepVars, pairs, pair_idx,
                   analysis_file, runs, prev_report, botVars, subsVars>>

\* lines 180-183: the report is written over analysis.json
MainSave ==
    /\ pc = "loop"
    /\ pair_idx = Len(pairs)
    /\ analysis_file' = Saved(analysis_file, runs, analysis)
    /\ prev_report' = analysis_file
    /\ pc' = "idle"
    /\ UNCHANGED <<detVars, alignVars, seriesVars, coef, sweepVars, pairs, pair_idx, analysis,
                   runs, available, botVars, subsVars>>

MainNext ==
    \/ MainStart \/ MainCall \/ AnalyzeStart \/ SweepOuter \/ SweepInner
    \/ AnalyzeFinish \/ MainStore \/ MainSave

SpecMain == MainInit /\ [][MainNext]_vars

-----------------------------------------------------------------------------
(* The live monitor (bot.py 40-51, 109-161) *)

\* d.get(key, default)
Get(d, key, default) == IF key \in DOMAIN d THEN d[key] ELSE default

\* lines 69-73: abs(p1 - p2) / ((p1 + p2) / 2) * 100, and 0.0 when that raises
calc_spread(x, y) ==
    IF x + y = 0 THEN [n |-> 0, d |-> 1] ELSE [n |-> 200 * Abs(x - y), d |-> x + y]

\* lines 124-133: the smaller price is scaled by coef (in hundredths)
PollSpread(pr1, pr2, cf) ==
    LET scaled1 == IF pr1 < pr2 THEN pr1 * cf ELSE pr1 * 100
        scaled2 == IF pr1 < pr2 THEN pr2 * 100 ELSE pr2 * cf
    IN  calc_spread(scaled1, scaled2)

\* lines 113-117: what the loop reads from pairs.json for the j-th pair
KeyAt(j) == Key(pairs[j].p1, pairs[j].pair2)
CoefAt(j) == IF pairs[j].coef = None THEN 100 ELSE pairs[j].coef[1]
OpenSpreadAt(j) == IF pairs[j].open = None THEN Num(19998, 0) ELSE pairs[j].open[1]
CloseSpreadAt(j) == IF pairs[j].close = None THEN Num(2, 0) ELSE pairs[j].close[1]
PairKeys == {KeyAt(j) : j \in DOMAIN pairs}

\* the state dict: the entries state[key] and the entry state["cycles"]
BlankState == [status |-> EmptyCache, cycles |-> None]

\* faulty variant: the open test is strict (spread > open_spread)
TransitionStrictOpen(current, s, o, c) ==
    IF current = "inactive" /\ ~SpreadLeq(s, o) THEN "open"
    ELSE IF current = "active" /\ SpreadLeq(s, c) THEN "close"
    ELSE "none"

\* faulty variant: a spread at or above open alerts again while the pair is active
TransitionReopens(current, s, o, c) ==
    IF SpreadGeq(s, o) THEN "open"
    ELSE IF current = "active" /\ SpreadLeq(s, c) THEN "close"
    ELSE "none"

\* faulty variant: an active pair closes on any spread
TransitionClosesAlways(current, s, o, c) ==
    IF current = "inactive" /\ SpreadGeq(s, o) THEN "open"
    ELSE IF current = "active" THEN "close"
    ELSE "none"

\* lines 137 and 147: the branch taken
Transition(current, s, o, c) ==
    IF current = "inactive" /\ SpreadGeq(s, o) THEN "open"
    ELSE IF current = "active" /\ SpreadLeq(s, c) THEN "close"
    ELSE "none"

\* lines 138 and 148-152: the state dict after the branch
Opened(st, key) == [st EXCEPT !.status = Put(@, key, "active")]
Closed(st, key, stamp) ==
    LET cyc == IF st.cycles = None THEN EmptyCache ELSE st.cycles[1]
    IN  [status |-> Put(st.status, key, "inactive"),
         cycles |-> Some(Put(cyc, key, Append(Get(cyc, key, <<>>), stamp)))]

\* faulty variant: the state is not written
CheckpointSkipped(file, st) == file

\* save_json(STATE_FILE, state), lines 36-38
Checkpoint(file, st) == Some(st)

\* lines 40-51: the state is loaded; without a "cycles" entry every pair gets
\* its defaults and the file is written
BotStart ==
    /\ pc = "boot"
    /\ LET loaded == IF state_file = None THEN BlankState ELSE state_file[1]
           filled == [status |-> [x \in (DOMAIN loaded.status) \cup PairKeys |->
                                     Get(loaded.status, x, "inactive")],
                      cycles |-> Some([x \in PairKeys |-> <<>>])]
       IN  IF loaded.cycles = None
           THEN bot_state' = filled /\ state_file' = Checkpoint(state_file, filled)
           ELSE bot_state' = loaded /\ state_file' = state_file
    /\ pc' = "poll"
    /\ UNCHANGED <<detVars, alignVars, seriesVars, coef, sweepVars, mainVars, poll_idx,
                   price1, price2, now, polls, alerts, fed, subsVars>>

\* the prices get_price can return for a pair: None, or prices whose spread is
\* 0, 1, 2, 4 or 20 percent; fewer when two pairs are polled
PriceInputs ==
    IF Len(pairs) = 1
    THEN { <<None, Some(100)>>, <<Some(100), None>>, <<Some(100), Some(100)>>,
           <<Some(201), Some(199)>>, <<Some(99), Some(101)>>, <<Some(51), Some(49)>>,
           <<Some(45), Some(55)>> }
    ELSE { <<None, None>>, <<Some(201), Some(199)>>, <<Some(49), Some(51)>> }

\* lines 112-122: the next pair is taken and both prices are fetched; a missing
\* price skips the pair
PollFetch ==
    /\ pc = "poll"
    /\ poll_idx < Len(pairs)
    /\ poll_idx' = poll_idx + 1
    /\ \E pr \in PriceInputs :
           /\ price1' = pr[1] /\ price2' = pr[2]
           /\ pc' = IF pr[1] = None \/ pr[2] = None THEN "poll" ELSE "decide"
    /\ UNCHANGED <<detVars, alignVars, seriesVars, coef, sweepVars, mainVars, bot_state,
                   state_file, now, polls, alerts, fed, subsVars>>

\* the spread of the running poll (line 133)
Spread == PollSpread(price1[1], price2[1], CoefAt(poll_idx))
Current == Get(bot_state.status, KeyAt(poll_idx), "inactive")
Branch == Transition(Current, Spread, OpenSpreadAt(poll_idx), CloseSpreadAt(poll_idx))

\* lines 124-138 and 147-152: the spread is computed and the state dict changed
PollDecide ==
    /\ pc = "decide"
    /\ fed' = [fed EXCEPT ![KeyAt(poll_idx)] = Append(@, Spread)]
    /\ IF Branch = "open"
       THEN bot_state' = Opened(bot_state, KeyAt(poll_idx)) /\ pc' = "save_open"
       ELSE IF Branch = "close"
            THEN /\ bot_state' = Closed(bot_state, KeyAt(poll_idx), now)
                 /\ pc' = "save_close"
            ELSE bot_state' = bot_state /\ pc' = "poll"
    /\ UNCHANGED <<detVars, alignVars, seriesVars, coef, sweepVars, mainVars, state_file,
                   poll_idx, price1, price2, now, polls, alerts, subsVars>>

\* lines 139 and 153
PollSave ==
    /\ pc \in {"save_open", "save_close"}
    /\ state_file' = Checkpoint(state_file, bot_state)
    /\ pc' = IF pc = "save_open" THEN "send_open" ELSE "send_close"
    /\ UNCHANGED <<detVars, alignVars, seriesVars, coef, sweepVars, mainVars, bot_state,
                   poll_idx, price1, price2, now, polls, alerts, fed, subsVars>>

\* lines 140-146 and 154-160
PollBroadcast ==
    /\ pc \in {"send_open", "send_close"}
    /\ alerts' = Append(alerts, [key |-> KeyAt(poll_idx),
                                 kind |-> IF pc = "send_open" THEN "open" ELSE "close",
                                 poll |-> polls])
    /\ pc' = "poll"
    /\ UNCHANGED <<detVars, alignVars, seriesVars, coef, sweepVars, mainVars, bot_state,
                   state_file, poll_idx, price1, price2, now, polls, fed, subsVars>>

\* line 161 and back to line 112: the for loop is over, the next poll starts
PollSleep ==
    /\ pc = "poll"
    /\ poll_idx = Len(pairs)
    /\ polls < MaxPolls
    /\ polls' = polls + 1 /\ now' = now + 1
    /\ poll_idx' = 0
    /\ pc' = "poll"
    /\ UNCHANGED <<detVars, alignVars, seriesVars, coef, sweepVars, mainVars, bot_state,
                   state_file, price1, price2, alerts, fed, subsVars>>

\* the process is stopped between two polls and started again: the memory is
\* lost, the files stay
BotRestart ==
    /\ pc = "poll"
    /\ poll_idx = Len(pairs)
    /\ polls < MaxPolls
    /\ polls' = polls + 1 /\ now' = now + 1
    /\ poll_idx' = 0
    /\ bot_state' = BlankState
    /\ price1' = None /\ price2' = None
    /\ pc' = "boot"
    /\ UNCHANGED <<detVars, alignVars, seriesVars, coef, sweepVars, mainVars, state_file,
                   alerts, fed, subsVars>>

\* pairs.json as the bot reads it: one pair with open 4.0 and close 1.0, or that
\* pair and a second one that leaves close to its default
BotPairsInputs ==
    { << [p1 |-> SymA, pair2 |-> SymB, coef |-> None,
          open |-> Some(Num(8, 0)), close |-> Some(Num(2, 0))] >>,
      << [p1 |-> SymA, pair2 |-> SymB, coef |-> None,
          open |-> Some(Num(8, 0)), close |-> Some(Num(2, 0))],
         [p1 |-> SymC, pair2 |-> SymB, coef |-> Some(100),
          open |-> Some(Num(8, 0)), close |-> None] >> }

\* the bot is started without a state.json
MonitorInit ==
    /\ DetIdle /\ AlignIdle /\ SeriesIdle /\ SweepIdle /\ SubsIdle /\ coef = 100
    /\ pairs \in BotPairsInputs
    /\ pair_idx = 0 /\ analysis = <<>> /\ analysis_file = <<>> /\ runs = 0
    /\ available = {} /\ prev_report = <<>>
    /\ bot_state = BlankState
    /\ state_file = None
    /\ poll_idx = 0 /\ price1 = None /\ price2 = None
    /\ now = 1 /\ polls = 0
    /\ alerts = <<>>
    /\ fed = [x \in PairKeys |-> <<>>]
    /\ pc = "boot"

MonitorNext ==
    \/ BotStart \/ PollFetch \/ PollDecide \/ PollSave \/ PollBroadcast \/ PollSleep
    \/ BotRestart

SpecMonitor == MonitorInit /\ [][MonitorNext]_vars

-----------------------------------------------------------------------------
(* The subscribers file (bot.py 88-92, 188-210) *)

NL == "\n"
\* str(chat id) of the chats that write to the bot
ChatIds == {<<"1">>, <<"2">>, <<"3">>}

RECURSIVE SplitLines(_, _)
\* the lines of a text, read as `for line in f`; cur is the line being read
SplitLines(text, cur) ==
    IF text = <<>> THEN (IF cur = <<>> THEN {} ELSE {cur})
    ELSE IF text[1] = NL
         THEN (IF cur = <<>> THEN {} ELSE {cur}) \cup SplitLines(Tail(text), <<>>)
         ELSE SplitLines(Tail(text), Append(cur, text[1]))

\* lines 88-92: the non-blank lines of the file, as a set; no file, no subscriber
load_subscribers(file) == IF file = None THEN {} ELSE SplitLines(file[1], <<>>)

RECURSIVE JoinLines(_)
\* "\n".join(lines)
JoinLines(lines) ==
    IF lines = <<>> THEN <<>>
    ELSE IF Len(lines) = 1 THEN lines[1]
    ELSE lines[1] \o <<NL>> \o JoinLines(Tail(lines))

\* the orders in which a set can be iterated
Orders(S) == {q \in [1..Cardinality(S) -> S] : \A x \in S : \E n \in DOMAIN q : q[n] = x}

\* lines 196-202: /start appends the chat id and a newline unless it is listed
WebhookStart(chat_id) ==
    /\ n_cmds < MaxCommands
    /\ n_cmds' = n_cmds + 1
    /\ LET subs == load_subscribers(subscribers_file)
           text == IF subscribers_file = None THEN <<>> ELSE subscribers_file[1]
       IN  subscribers_file' = IF chat_id \notin subs
                               THEN Some(text \o chat_id \o <<NL>>)
                               ELSE subscribers_file
    /\ last_cmd' = [last_cmd EXCEPT ![chat_id] = "start"]
    /\ UNCHANGED <<detVars, alignVars, seriesVars, coef, sweepVars, mainVars, botVars, pc>>

\* lines 204-210: /stop writes the other subscribers back, joined by newlines
WebhookStop(chat_id) ==
    /\ n_cmds < MaxCommands
    /\ n_cmds' = n_cmds + 1
    /\ LET subs == load_subscribers(subscribers_file) \ {chat_id}
       IN  \E order \in Orders(subs) : subscribers_file' = Some(JoinLines(order))
    /\ last_cmd' = [last_cmd EXCEPT ![chat_id] = "stop"]
    /\ UNCHANGED <<detVars, alignVars, seriesVars, coef, sweepVars, mainVars, botVars, pc>>

\* the bot runs with subscribers.txt missing or empty
SubsInit ==
    /\ DetIdle /\ AlignIdle /\ SeriesIdle /\ SweepIdle /\ MainIdle /\ BotIdle
    /\ coef = 100 /\ pc = "serving"
    /\ subscribers_file \in {None, Some(<<>>)}
    /\ last_cmd = [c \in ChatIds |-> "none"]
    /\ n_cmds = 0

SubsNext == \E chat_id \in ChatIds : WebhookStart(chat_id) \/ WebhookStop(chat_id)

SpecSubscribers == SubsInit /\ [][SubsNext]_vars

-----------------------------------------------------------------------------
(* Reference reading of a series, used only to state the detector's claims: *)
(* cycles found by searching for the next opening and the next closing      *)
(* index instead of stepping a state.                                       *)

FirstIndex(S) == IF S = {} THEN 0 ELSE CHOOSE j \in S : \A j2 \in S : j <= j2

RECURSIVE ScanCycles(_, _, _, _)
ScanCycles(sp, i, o, c) ==
    LET jo == FirstIndex({j \in i..Len(sp) : SpreadGeq(sp[j], o)})
    IN  IF jo = 0 THEN [count |-> 0, pending |-> FALSE]
        ELSE LET jc == FirstIndex({j \in (jo + 1)..Len(sp) : SpreadLeq(sp[j], c)})
             IN  IF jc = 0 THEN [count |-> 0, pending |-> TRUE]
                 ELSE LET r == ScanCycles(sp, jc + 1, o, c)
                      IN  [count |-> r.count + 1, pending |-> r.pending]

\* open >= close + 4.0, the gap every pair of the sweep keeps
GapValid(o, c) == NumLeq(NumAdd(c, Num(8, 0)), o)

\* the detector's count and state against the reference reading, at every step
DetectorMatchesScan ==
    LET r == ScanCycles(SubSeq(spreads, 1, k), 1, open_thr, close_thr)
    IN  /\ count = r.count
        /\ (state = "waiting_close") <=> r.pending
        /\ state \in {"waiting_open", "waiting_close"}
        /\ (k = Len(spreads) =>
               count = count_cycles_for_thresholds(spreads, open_thr, close_thr))

ScenarioRun(series) ==
    /\ k = Len(spreads) /\ spreads = series
    /\ open_thr = Num(8, 0) /\ close_thr = Num(2, 0)

\* C1 as stated: the detector's count is the number of completed open-then-close
\* cycles (one transition per value, a pending opening not counted), and the
\* series [1, 5, 6, 2, 0.5, 7, 1] with open 4 and close 1 returns 1, ending in
\* waiting_close.
C1_Original ==
    /\ DetectorMatchesScan
    /\ ScenarioRun(ScenarioSeries) => (count = 1 /\ state = "waiting_close")

\* C1, amended: after any number of processed values the detector's count is
\* the number of completed open-then-close cycles of the values seen so far
\* (each opening strictly before its closing, one transition per value), it
\* waits for a close exactly when an opening is still pending, and a pending
\* opening is not counted.  The series [1, 5, 6, 2, 0.5, 7, 1] with open 4 and
\* close 1 returns 2 and ends in waiting_open, because its last value 1 <= 1
\* closes the second cycle; [1, 5, 6, 2, 0.5, 7, 2] returns 1 and ends in
\* waiting_close.
C1_CountIsCompletedCycles ==
    /\ DetectorMatchesScan
    /\ ScenarioRun(ScenarioSeries) => (count = 2 /\ state = "waiting_open")
    /\ ScenarioRun(ScenarioPending) => (count = 1 /\ state = "waiting_close")

\* a series that ends with an opening still pending
C1_Witness ==
    /\ ScenarioRun(ScenarioPending)
    /\ count = 1 /\ state = "waiting_close"

\* C2: the running count is a natural number and at most floor(k / 2) after k
\* values; the returned count is at most floor(length / 2).
C2_CountAtMostHalf ==
    /\ count \in Nat
    /\ 2 * count <= k
    /\ LET total == count_cycles_for_thresholds(spreads, open_thr, close_thr)
       IN  total \in Nat /\ total <= Len(spreads) \div 2

\* the bound is met: four values, two cycles
C2_Witness == k = Len(spreads) /\ k = 4 /\ count = 2

\* C3: with the close threshold fixed and both pairs keeping the gap, any open
\* threshold at or above the one used gives at most as many cycles.
C3_RaisingOpenNeverAddsCycles ==
    (k = Len(spreads) /\ GapValid(open_thr, close_thr)) =>
        \A dh \in 0..4 :
            count_cycles_for_thresholds(spreads, NumAdd(open_thr, Num(dh, 0)), close_thr)
                <= count

\* a higher open threshold that strictly loses a cycle
C3_Witness ==
    /\ k = Len(spreads) /\ GapValid(open_thr, close_thr) /\ count = 2
    /\ count_cycles_for_thresholds(spreads, NumAdd(open_thr, Num(2, 0)), close_thr) = 1

-----------------------------------------------------------------------------
(* Claims about align_series *)

TsSet(pts) == {pts[i][1] : i \in DOMAIN pts}
\* the price of the last point of pts listed with timestamp ts
LastPrice(pts, ts) ==
    LET last == CHOOSE i \in DOMAIN pts :
                    /\ pts[i][1] = ts
                    /\ \A j \in DOMAIN pts : pts[j][1] = ts => j <= i
    IN  pts[last][2]
\* pts with the points at positions i and i + 1 exchanged
SwapAdjacent(pts, i) ==
    [j \in DOMAIN pts |-> IF j = i THEN pts[i + 1] ELSE IF j = i + 1 THEN pts[i] ELSE pts[j]]

Returned == [common |-> common, series_a |-> series_a, series_b |-> series_b]

AlignedOnCommonTimestamps ==
    /\ Len(series_a) = Len(common) /\ Len(series_b) = Len(common)
    /\ {common[j] : j \in DOMAIN common} = TsSet(a) \cap TsSet(b)
    /\ \A j \in 1..(Len(common) - 1) : common[j] < common[j + 1]
    /\ \A j \in DOMAIN common :
           /\ series_a[j] = LastPrice(a, common[j])
           /\ series_b[j] = LastPrice(b, common[j])
    /\ (TsSet(a) \cap TsSet(b) = {} =>
           common = <<>> /\ series_a = <<>> /\ series_b = <<>>)

\* C8 as stated: the result is the common timestamps in strictly increasing
\* order with the (last listed) prices of both inputs at them, empty for an
\* empty intersection, and it is the same for every reordering of the points of
\* either input (every reordering is a chain of exchanges of neighbours).
C8_Original ==
    pc = "returned" =>
        /\ AlignedOnCommonTimestamps
        /\ \A i \in 1..(Len(a) - 1) : align_series(SwapAdjacent(a, i), b) = Returned
        /\ \A i \in 1..(Len(b) - 1) : align_series(a, SwapAdjacent(b, i)) = Returned

\* C8, amended: as stated, except that the result is the same only for the
\* reorderings that keep the relative order of points sharing a timestamp
\* within one input (among those the last listed decides the price).
C8_AlignedAndOrderIndependent ==
    pc = "returned" =>
        /\ AlignedOnCommonTimestamps
        /\ \A i \in 1..(Len(a) - 1) :
               a[i][1] # a[i + 1][1] => align_series(SwapAdjacent(a, i), b) = Returned
        /\ \A i \in 1..(Len(b) - 1) :
               b[i][1] # b[i + 1][1] => align_series(a, SwapAdjacent(b, i)) = Returned

\* unsorted inputs, two common timestamps, one of them listed twice in a with
\* different prices
C8_Witness ==
    /\ pc = "returned" /\ Len(common) = 2 /\ Len(a) = 3 /\ Len(b) = 3
    /\ a[1][1] > a[2][1] /\ b[1][1] > b[2][1]
    /\ a[3][1] = a[1][1] /\ a[3][2] # a[1][2]
    /\ series_a[2] = a[3][2]

-----------------------------------------------------------------------------
(* Claims about calc_spread_list *)

\* the spread with the smaller price scaled, as a fraction [n, d]; d = 0 when
\* the mean of the scaled pair is zero
ScaledSmaller(pa, pb, cf) ==
    LET lo == IF pa < pb THEN pa ELSE pb
        hi == IF pa < pb THEN pb ELSE pa
    IN  [n |-> 200 * Abs(lo * cf - hi * 100), d |-> lo * cf + hi * 100]

\* C9: for equal-length lists of non-negative prices and a positive coefficient
\* the returned list has the same length, every value is a well-defined
\* non-negative number (no division by zero), equal to the spread of the pair
\* with only its smaller price scaled, and equal to 0 where the mean of the
\* scaled pair is zero.
C9_SpreadsNonNegativeSameLength ==
    (/\ pc = "returned" /\ Len(series_a) = Len(series_b) /\ coef > 0
     /\ \A j \in DOMAIN series_a : series_a[j] >= 0 /\ series_b[j] >= 0)
    => /\ Len(spreads) = Len(series_a)
       /\ \A j \in DOMAIN spreads :
              LET s == spreads[j]
                  ref == ScaledSmaller(series_a[j], series_b[j], coef)
              IN  /\ s.d > 0 /\ s.n >= 0
                  /\ (ref.d = 0 => s.n = 0)
                  /\ (ref.d # 0 => s.n * ref.d = ref.n * s.d)

\* a zero-mean point next to a point whose smaller price is scaled by 2.5
C9_Witness ==
    /\ pc = "returned" /\ coef = 250
    /\ series_a = <<0, 1>> /\ series_b = <<0, 3>>
    /\ spreads[1].n = 0 /\ spreads[2].n * 550 = 10000 * spreads[2].d

-----------------------------------------------------------------------------
(* Claims about the sweep of analyze_pair *)

\* The grid in half units: the first open whose max_close is not negative, the
\* pairs <<open, close>> with 0 <= close <= open - 4.0, and the number of
\* pairs with an open below oh.
FirstOpenH == IF OPEN_MIN.h > 8 THEN OPEN_MIN.h ELSE 8
GridSet ==
    {g \in (FirstOpenH..OPEN_MAX.h) \X (0..(OPEN_MAX.h - 8)) : g[2] <= g[1] - 8}
RECURSIVE PairsBefore(_)
PairsBefore(oh) ==
    IF oh <= FirstOpenH THEN 0 ELSE (oh - 8) + PairsBefore(oh - 1)

SweepDone == pc = "report" \/ (pc = "returned" /\ res # None)
Shipped == <<OPEN_MIN, OPEN_MAX>> = ShippedConfig
Cycles(g) == count_cycles_for_thresholds(spreads, Num(g[1], 0), Num(g[2], 0))
WithCycles == {g \in GridSet : Cycles(g) > 0}
Listed == {<<res[1][j].open.h, res[1][j].close.h>> : j \in DOMAIN res[1]}
LexLess(g1, g2) == g1[1] < g2[1] \/ (g1[1] = g2[1] /\ g1[2] < g2[2])

\* C4: the n-th detector call of a sweep is given the n-th pair of the grid in
\* ascending (open, close) order, as exact grid values, and the sweep ends after the
\* last pair: every pair of the grid is evaluated exactly once, in that order,
\* an open below 4.0 contributes nothing, and every pair evaluated has
\* close >= 0 and open >= close + 4.0.  As shipped the grid is open in
\* 4.0..30.0 with close in 0.0..open - 4.0.
C4_SweepVisitsGridOnce ==
    /\ last_call = None => (n_calls = 0 \/ pc \notin {"outer", "inner", "report"})
    /\ (last_call # None /\ pc \in {"outer", "inner", "report", "returned"}) =>
           LET o == last_call[1][1]
               c == last_call[1][2]
           IN  /\ o.e = 0 /\ c.e = 0
               /\ <<o.h, c.h>> \in GridSet
               /\ c.h >= 0 /\ o.h >= c.h + 8
               /\ n_calls = PairsBefore(o.h) + c.h + 1
    /\ SweepDone => n_calls = Cardinality(GridSet)
    /\ (SweepDone /\ Shipped) =>
           /\ GridSet = {g \in (8..60) \X (0..52) : g[2] <= g[1] - 8}
           /\ last_call = Some(<<Num(60, 0), Num(52, 0)>>)

\* the shipped sweep has ended on the pair (30.0, 26.0)
C4_Witness ==
    /\ pc = "returned" /\ Shipped /\ n_calls > 0
    /\ last_call = Some(<<Num(60, 0), Num(52, 0)>>)

\* C5: the returned list holds only grid pairs with cycles > 0, each once and
\* with its own count, has min(5, number of such pairs) entries, is ordered by
\* cycles non-increasing, and no pair left out has more cycles than a listed one.
C5_TopFiveByCycles ==
    (pc = "returned" /\ res # None) =>
        LET list == res[1]
        IN  /\ Len(list) = Min(5, Cardinality(WithCycles))
            /\ Cardinality(Listed) = Len(list)
            /\ \A j \in DOMAIN list :
                   /\ list[j].open.e = 0 /\ list[j].close.e = 0
                   /\ <<list[j].open.h, list[j].close.h>> \in WithCycles
                   /\ list[j].cycles = Cycles(<<list[j].open.h, list[j].close.h>>)
            /\ \A j \in 1..(Len(list) - 1) : list[j].cycles >= list[j + 1].cycles
            /\ \A g \in WithCycles \ Listed : \A j \in DOMAIN list :
                   Cycles(g) <= list[j].cycles

\* more than five pairs with cycles, and different counts among the five kept
C5_Witness ==
    /\ pc = "returned" /\ res # None /\ Shipped
    /\ Cardinality(WithCycles) > 5 /\ Len(res[1]) = 5
    /\ res[1][1].cycles > res[1][5].cycles

\* C6: listed pairs with equal counts are in sweep order (smaller open first,
\* then smaller close), and a pair left out with the count of a listed pair
\* comes after it in sweep order.
C6_TiesKeepSweepOrder ==
    (pc = "returned" /\ res # None) =>
        LET list == res[1]
            At(j) == <<list[j].open.h, list[j].close.h>>
        IN  /\ \A i, j \in DOMAIN list :
                   (i < j /\ list[i].cycles = list[j].cycles) => LexLess(At(i), At(j))
            /\ \A g \in WithCycles \ Listed : \A j \in DOMAIN list :
                   Cycles(g) = list[j].cycles => LexLess(At(j), g)

\* a tie inside the list and a tie across the cut
C6_Witness ==
    /\ pc = "returned" /\ res # None /\ Len(res[1]) = 5
    /\ res[1][1].cycles > res[1][2].cycles
    /\ res[1][2].cycles = res[1][3].cycles
    /\ \E g \in WithCycles \ Listed : Cycles(g) = res[1][5].cycles

\* C7: when the spread series is empty the detector counts 0 for every pair of
\* the grid, the sweep retains nothing and analyze_pair returns the empty list,
\* not None.
C7_EmptySeriesEmptyReport ==
    (/\ pc = "returned" /\ spreads = <<>>
     /\ {p1_sym, p2_sym} \subseteq DOMAIN klines_cache)
    => /\ res = Some(<<>>)
       /\ results = <<>>
       /\ n_calls = Cardinality(GridSet)
       /\ \A g \in GridSet : Cycles(g) = 0

C7_Witness ==
    /\ pc = "returned" /\ Shipped /\ spreads = <<>> /\ exchange[SymA] = <<>>
    /\ n_calls > 0 /\ res = Some(<<>>)

-----------------------------------------------------------------------------
(* The cache of main *)

\* the combinations of pairs.json that name the asset
Refs(sym) == {j \in DOMAIN pairs : pairs[j].p1 = sym \/ pairs[j].pair2 = sym}

Shared(sym) == Cardinality(Refs(sym)) >= 2

-----------------------------------------------------------------------------
(* The report of main *)

KeyOf(j) == Key(pairs[j].p1, pairs[j].pair2)
AvailableKeys == {KeyOf(j) : j \in available}
RunSaved == pc = "idle" /\ runs > 0

\* C11: analyze_pair returns None exactly when a fetch failed; the report being
\* built has exactly the keys of the combinations handled so far for which both
\* series were available, each with a list, and the list is empty when no
\* threshold pair has a cycle; after the loop every combination has been handled
\* and the saved report is the one built.
C11_SkippedAbsentEmptyPresent ==
    /\ pc = "returned" => (res = None <=> ~({p1_sym, p2_sym} \subseteq DOMAIN klines_cache))
    /\ pc \in {"loop", "idle"} =>
           /\ available \subseteq 1..pair_idx
           /\ DOMAIN analysis = AvailableKeys
           /\ (pair_idx \in available) =>
                  /\ analysis[KeyOf(pair_idx)] = res[1]
                  /\ (WithCycles = {} => analysis[KeyOf(pair_idx)] = <<>>)
    /\ RunSaved =>
           /\ pair_idx = Len(pairs)
           /\ analysis_file # None
           /\ DOMAIN analysis_file[1].pairs = AvailableKeys
           /\ \A j \in DOMAIN pairs : j \notin available =>
                  KeyOf(j) \notin DOMAIN analysis_file[1].pairs

\* a run is saved in which the first combination was skipped after a failed
\* fetch and the second, processed all the same, is present with an empty list
C11_Witness ==
    /\ RunSaved /\ Len(pairs) = 2
    /\ available = {2}
    /\ fetch_log[pairs[1].pair2][1] = "failed"
    /\ analysis_file[1].pairs = [x \in {KeyOf(2)} |-> <<>>]

-----------------------------------------------------------------------------
(* Sweep configurations without a threshold pair *)

OpenRangeEmpty == NumLt(OPEN_MAX, OPEN_MIN)
\* open - 4.0 is negative for every open of the range
EveryOpenSkipped == ~OpenRangeEmpty /\ NumLt(OPEN_MAX, Num(8, 0))

\* C12: with OPEN_MIN > OPEN_MAX, or with open - 4.0 negative for every open of
\* the range, the sweep runs to its end without a detector call, retains
\* nothing, and analyze_pair returns the empty list.
C12_NoPairEmptyReport ==
    (OpenRangeEmpty \/ EveryOpenSkipped) =>
        /\ n_calls = 0 /\ results = <<>> /\ last_call = None
        /\ pc \in {"analyze", "outer", "report", "returned"}
        /\ (pc = "returned" /\ {p1_sym, p2_sym} \subseteq DOMAIN klines_cache) =>
               res = Some(<<>>)

\* analyze_pair has returned [] for 1.0..3.0 on a series that has cycles as shipped
C12_Witness ==
    /\ EveryOpenSkipped /\ pc = "returned" /\ res = Some(<<>>)
    /\ count_cycles_for_thresholds(spreads, Num(8, 0), Num(0, 0)) > 0

\* the same with OPEN_MIN above OPEN_MAX
C12_WitnessEmptyRange ==
    /\ OpenRangeEmpty /\ pc = "returned" /\ res = Some(<<>>)
    /\ count_cycles_for_thresholds(spreads, Num(8, 0), Num(0, 0)) > 0

-----------------------------------------------------------------------------
(* The persisted report across runs *)

\* C13: a run starts from an empty mapping and its save replaces the file: the
\* saved report is the mapping built by this run, stamped by this run, its keys
\* are the combinations this run had both series for, and a key of the earlier
\* report whose combination this run skipped is gone.
C13_ReportReplaced ==
    /\ (pc = "loop" /\ pair_idx = 0) => analysis = EmptyCache
    /\ RunSaved =>
           /\ analysis_file = Some([generated_at |-> runs, pairs |-> analysis])
           /\ DOMAIN analysis_file[1].pairs = AvailableKeys
           /\ prev_report # None =>
                  \A key \in DOMAIN prev_report[1].pairs :
                      key \notin AvailableKeys => key \notin DOMAIN analysis_file[1].pairs

\* the second run skipped a combination that the first run had reported
C13_Witness ==
    /\ RunSaved /\ runs = 2 /\ prev_report # None
    /\ \E j \in DOMAIN pairs :
           /\ KeyOf(j) \in DOMAIN prev_report[1].pairs
           /\ j \notin available
           /\ KeyOf(j) \notin DOMAIN analysis_file[1].pairs
    /\ analysis_file[1].pairs # EmptyCache

-----------------------------------------------------------------------------
(* Termination of the shipped sweep *)

OpensOfGrid == {g[1] : g \in GridSet}

\* C16: as shipped (4.0..30.0, steps 0.5) a sweep that has started ends with
\* analyze_pair returning, for every series, after exactly 1431 detector calls:
\* one per threshold pair of a grid of 53 open values, whatever the series holds.
C16_ShippedSweepTerminates ==
    (pc = "outer") ~> (/\ pc = "returned" /\ res # None
                       /\ n_calls = 1431
                       /\ Cardinality(OpensOfGrid) = 53
                       /\ Cardinality(GridSet) = 1431)

\* the shipped sweep has finished on a series that has cycles
C16_Witness ==
    /\ Shipped /\ pc = "returned" /\ res # None /\ res # Some(<<>>)
    /\ Len(spreads) = Len(LongOffsets) /\ n_calls = 1431

-----------------------------------------------------------------------------
(* The monitor against the offline detector *)

\* the offline detector run over the spreads the j-th pair's transition was given
Offline(j) ==
    CountLoop(fed[KeyAt(j)], 1, [state |-> "waiting_open", count |-> 0],
              OpenSpreadAt(j), CloseSpreadAt(j))
StatusOf(j) == Get(bot_state.status, KeyAt(j), "inactive")
CyclesOf(j) ==
    IF bot_state.cycles = None THEN <<>> ELSE Get(bot_state.cycles[1], KeyAt(j), <<>>)

\* C14: after every value given to a pair's transition, the pair is inactive
\* exactly when the offline detector, run over the values given so far with the
\* pair's thresholds, is in waiting_open and active exactly when it is in
\* waiting_close, and the pair has as many cycle timestamps as the detector
\* counts.
C14_MonitorIsDetector ==
    pc # "boot" =>
        \A j \in DOMAIN pairs :
            /\ StatusOf(j) = (IF Offline(j).state = "waiting_open" THEN "inactive"
                              ELSE "active")
            /\ Offline(j).state \in {"waiting_open", "waiting_close"}
            /\ Len(CyclesOf(j)) = Offline(j).count
            /\ Len(CyclesOf(j)) =
                   count_cycles_for_thresholds(fed[KeyAt(j)], OpenSpreadAt(j),
                                               CloseSpreadAt(j))

\* a pair has closed a cycle and is open again, one value having met the open
\* threshold exactly
C14_Witness ==
    /\ pc = "poll" /\ Len(pairs) = 1
    /\ Len(CyclesOf(1)) = 1 /\ StatusOf(1) = "active"
    /\ Len(fed[KeyAt(1)]) = 3
    /\ SpreadGeq(fed[KeyAt(1)][1], Num(8, 0)) /\ SpreadLeq(fed[KeyAt(1)][1], Num(8, 0))

-----------------------------------------------------------------------------
(* The checkpoint of the monitor *)

FileStatusOf(j) == Get(state_file[1].status, KeyAt(j), "inactive")
FileCyclesOf(j) ==
    IF state_file[1].cycles = None THEN <<>>
    ELSE Get(state_file[1].cycles[1], KeyAt(j), <<>>)

\* C15: the state file equals the state dict whenever an alert is about to be
\* broadcast, whenever the loop is at a pair boundary or sleeping, and while a
\* pair's prices are evaluated; it lags the dict only between a transition and
\* its save; and at a restart between polls the file holds every pair's latest
\* state and all its cycle timestamps, which the start then loads.
C15_CheckpointBeforeAlert ==
    /\ pc \in {"send_open", "send_close", "poll", "decide"} => state_file = Some(bot_state)
    /\ pc \in {"save_open", "save_close"} => state_file # Some(bot_state)
    /\ (pc = "boot" /\ polls > 0) =>
           /\ state_file # None
           /\ \A j \in DOMAIN pairs :
                  /\ FileStatusOf(j) = (IF Offline(j).state = "waiting_open"
                                        THEN "inactive" ELSE "active")
                  /\ Len(FileCyclesOf(j)) = Offline(j).count

\* a restart finds a pair active with one cycle on file
C15_Witness ==
    /\ pc = "boot" /\ polls > 0 /\ state_file # None
    /\ FileStatusOf(1) = "active" /\ Len(FileCyclesOf(1)) = 1

\* a close alert is about to be broadcast and the file already holds the cycle
C15_WitnessAlert ==
    /\ pc = "send_close" /\ state_file = Some(bot_state)
    /\ Len(CyclesOf(poll_idx)) = 1

-----------------------------------------------------------------------------
(* The alerts of the monitor *)

AlertsOf(j) == SelectSeq(alerts, LAMBDA x : x.key = KeyAt(j))
CloseAlertsOf(j) == SelectSeq(alerts, LAMBDA x : x.key = KeyAt(j) /\ x.kind = "close")
\* the j-th pair has recorded a cycle whose alert is still to be broadcast
ClosePending(j) == j = poll_idx /\ pc \in {"save_close", "send_close"}

\* C18: the alerts of a pair, started inactive, are open, close, open, ... in
\* turn, each in a later poll than the one before; the pair is active exactly
\* when its last alert (counting one about to be broadcast) is an open; and its
\* cycle timestamps are as many as its close alerts, plus the one whose alert
\* is about to be broadcast.
C18_AlertsAlternate ==
    pc # "boot" =>
        \A j \in DOMAIN pairs :
            LET al == AlertsOf(j)
                pending == IF j = poll_idx /\ pc \in {"save_open", "send_open", "save_close",
                                                      "send_close"}
                           THEN 1 ELSE 0
            IN  /\ \A n \in DOMAIN al :
                       al[n].kind = (IF n % 2 = 1 THEN "open" ELSE "close")
                /\ \A n \in 1..(Len(al) - 1) : al[n].poll < al[n + 1].poll
                /\ (pending = 1 /\ al # <<>>) => al[Len(al)].poll < polls
                /\ (StatusOf(j) = "active") <=> ((Len(al) + pending) % 2 = 1)
                /\ Len(CyclesOf(j)) =
                       Len(CloseAlertsOf(j)) + (IF ClosePending(j) THEN 1 ELSE 0)

\* a pair has sent open, close, open, close in four polls
C18_Witness ==
    /\ pc = "poll" /\ Len(AlertsOf(1)) = 4 /\ Len(CyclesOf(1)) = 2
    /\ AlertsOf(1)[4].kind = "close"

-----------------------------------------------------------------------------
(* Polls that change nothing *)

NoCrossing ==
    \/ Current = "inactive" /\ ~SpreadGeq(Spread, OpenSpreadAt(poll_idx))
    \/ Current = "active" /\ ~SpreadLeq(Spread, CloseSpreadAt(poll_idx))

\* C19: a poll of a pair that finds a price missing, and a poll whose spread is
\* below open while the pair is inactive or above close while it is active,
\* goes on to the next pair with the state dict, the state file and the alerts
\* as they were.
C19_QuietPollChangesNothing ==
    [][ /\ (pc = "poll" /\ poll_idx' = poll_idx + 1 /\ (price1' = None \/ price2' = None))
            => (pc' = "poll" /\ UNCHANGED <<bot_state, state_file, alerts>>)
        /\ (pc = "decide" /\ NoCrossing)
            => (pc' = "poll" /\ UNCHANGED <<bot_state, state_file, alerts>>) ]_vars

\* an active pair has been polled with a spread between close and open, and
\* the poll after that found a price missing
C19_Witness ==
    /\ pc = "poll" /\ poll_idx = 1 /\ Len(pairs) = 1 /\ polls = 2
    /\ price1 = None
    /\ StatusOf(1) = "active" /\ Len(fed[KeyAt(1)]) = 2 /\ Len(alerts) = 1
    /\ ~SpreadLeq(fed[KeyAt(1)][2], CloseSpreadAt(1))
    /\ ~SpreadGeq(fed[KeyAt(1)][2], OpenSpreadAt(1))

-----------------------------------------------------------------------------
(* The subscribers *)

\* C17: after any sequence of /start and /stop commands the subscribers loaded
\* from the file are exactly the chats whose last command was /start.
C17_SubscribersAreLastStarted ==
    load_subscribers(subscribers_file) = {c \in ChatIds : last_cmd[c] = "start"}

=============================================================================
